---- MODULE Spec2Model ----
(***************************************************************************)
(* Model of northern-city-map/pareto_cities.py: find_pareto_cities, the    *)
(* "largest-northernmost" frontier scan over a table of cities.            *)
(*                                                                         *)
(* A table (pandas DataFrame) is a sequence of rows; a row carries its     *)
(* index label, its latitude and its population.  The other columns of the *)
(* GeoNames table are never read by find_pareto_cities.                    *)
(***************************************************************************)
EXTENDS Integers, Sequences, FiniteSets, TLC

\* Bounds of the model.
MaxLen == 3          \* rows in a caller's table
MaxLatitude == 3     \* latitudes are 1..MaxLatitude
MaxPopulation == 2   \* populations are -1..MaxPopulation
MaxCalls == 2        \* calls of find_pareto_cities in one run
MaxArrayLen == 2     \* latitudes in an array passed to daylight_duration_array
MaxCities == 2       \* rows of cities1000.txt

Latitudes == 1..MaxLatitude
Populations == (-1)..MaxPopulation

\* A missing or not-a-number value of a float column.  Every comparison with
\* it is false; it is kept apart from every latitude and population.
NaN == -1000

\* A table as the caller builds it from the rows t: rows labelled 1..n in order.
Table(t) ==
  [k \in 1..Len(t) |-> [index |-> k,
                        latitude |-> t[k].latitude,
                        population |-> t[k].population]]

VARIABLES
  df,                     \* the table passed to find_pareto_cities
  df_sorted,              \* the sorted copy (line 14)
  pareto_cities,          \* the list of accepted rows (line 16)
  max_population_so_far,  \* the running maximum (line 17)
  pos,                    \* position of the iterrows() loop in df_sorted
  pc,                     \* "call", "loop", "done", or the exception raised
  result,                 \* the DataFrame returned (line 25)
  calls,                  \* number of calls made so far
  \* daylight/calculations.py and its callers
  input_date,             \* the date or datetime passed in
  latitudes,              \* the array of latitudes passed in
  doy,                    \* what day_of_year returned (0: not called yet)
  h_angle,                \* h_angle of each daylight_duration call (line 73)
  individual_results,     \* what each daylight_duration call returned
  array_result,           \* what daylight_duration_array returned
  resolution,             \* lat_resolution and lon_resolution
  grid,                   \* what create_daylight_grid returned
  \* daylight-visualization/app.py
  session_state,          \* st.session_state
  clicked,                \* the widget whose use started this script run
  selected_date,          \* selected_date of this script run (line 72)
  selected_day_of_year,   \* what the day slider returned in this run (line 58)
  animate,                \* the "Enable Animation" checkbox (line 86)
  banner,                 \* this run showed "Animation Active" (lines 78-80)
  advanced,               \* this run took the auto-advance step (lines 160-175)
  \* northern-city-map/latitude_population.py
  cities1000,             \* the table read from cities1000.txt (line 12)
  latitude_pop,           \* population per latitude bin (lines 22-29)
  climate_zones,          \* the five totals of lines 104-111
  reported                \* the summary has been printed (lines 117-122)

pareto_vars ==
  <<df, df_sorted, pareto_cities, max_population_so_far, pos, pc, result, calls>>

daylight_vars ==
  <<input_date, latitudes, doy, h_angle, individual_results, array_result,
    resolution, grid>>

app_vars ==
  <<session_state, clicked, selected_date, selected_day_of_year, animate,
    banner, advanced>>

zone_vars == <<cities1000, latitude_pop, climate_zones, reported>>

vars == <<pareto_vars, daylight_vars, app_vars, zone_vars>>

----------------------------------------------------------------------------
\* df.sort_values('latitude', ascending=False)

\* Descending by latitude; rows without a latitude come last
\* (na_position='last', the default).
IsSortedDescending(s) ==
  \A k \in 1..(Len(s) - 1) :
    \/ s[k + 1].latitude = NaN
    \/ s[k].latitude # NaN /\ s[k].latitude >= s[k + 1].latitude

Reorderings(d) ==
  { [k \in 1..Len(d) |-> d[p[k]]] : p \in Permutations(1..Len(d)) }

\* Mutant: ascending=True.
sort_values_ascending(d) ==
  { s \in Reorderings(d) :
      \A k \in 1..(Len(s) - 1) : s[k].latitude <= s[k + 1].latitude }

\* sort_values is called with its default kind='quicksort', which is not a
\* stable sort: rows of equal latitude come out in an order the library does
\* not promise.  Every descending arrangement of the rows is a possible result.
sort_values(d) ==
  { s \in Reorderings(d) : IsSortedDescending(s) }

\* Mutant: sort_values(..., inplace=True) reorders the caller's table.
CallerTableSortedInPlace(d, s) == s

\* What the caller's table holds after line 14: sort_values returns a new
\* table and .copy() detaches it, so the caller's rows keep their order.
CallerTableAfterSort(d, s) == d

\* Mutant: .reset_index(drop=True) relabels the returned rows 1..n.
DataFrameResetIndex(rows) ==
  [k \in 1..Len(rows) |-> [rows[k] EXCEPT !.index = k]]

----------------------------------------------------------------------------
\* The locals at loop entry (lines 16-17).

\* Mutant: seed the frontier with the first sorted row (iloc[0] raises
\* IndexError on an empty table).
LoopEntrySeeded(s) ==
  IF Len(s) = 0
    THEN [pareto_cities |-> <<>>, max_population_so_far |-> 0, pc |-> "IndexError"]
    ELSE [pareto_cities |-> <<s[1]>>, max_population_so_far |-> s[1].population,
          pc |-> "loop"]

LoopEntry(s) ==
  [pareto_cities |-> <<>>, max_population_so_far |-> 0, pc |-> "loop"]

\* Mutant: non-strict comparison.
IncludesNonStrict(city, max_so_far) ==
  city.population # NaN /\ city.population >= max_so_far

\* The test of line 21.  A comparison with NaN is false.
Includes(city, max_so_far) ==
  city.population # NaN /\ city.population > max_so_far

\* pd.DataFrame(pareto_cities): the accepted rows, in list order, each with
\* its index label and fields (line 25).
DataFrame(rows) == rows

----------------------------------------------------------------------------
\* The locals of find_pareto_cities as a call begins.
EnterCall ==
  /\ df_sorted = <<>>
  /\ pareto_cities = <<>>
  /\ max_population_so_far = 0
  /\ pos = 1
  /\ pc = "call"
  /\ result = <<>>
  /\ calls = 1

\* No date, array or grid is in play.
NoGrid == [lat_grid |-> <<>>, lon_grid |-> <<>>, daylight_grid |-> <<>>]

\* latitude_population.py has not run.
ZonesIdle ==
  /\ cities1000 = <<>>
  /\ latitude_pop = <<>>
  /\ climate_zones = [tropical_pop |-> 0, temperate_north_pop |-> 0,
                      temperate_south_pop |-> 0, arctic_pop |-> 0,
                      antarctic_pop |-> 0]
  /\ reported = FALSE

\* The dashboard is not running.
AppIdle ==
  /\ session_state = [day_of_year |-> 1]
  /\ clicked = "none"
  /\ selected_date = [kind |-> "date", year |-> 2024, month |-> 1, day |-> 1, hour |-> 0]
  /\ selected_day_of_year = 1
  /\ animate = FALSE
  /\ banner = FALSE
  /\ advanced = FALSE

DaylightIdle ==
  /\ input_date = [kind |-> "date", year |-> 2024, month |-> 1, day |-> 1, hour |-> 0]
  /\ latitudes = <<>>
  /\ doy = 0
  /\ h_angle = <<>>
  /\ individual_results = <<>>
  /\ array_result = <<>>
  /\ resolution = [lat |-> 0, lon |-> 0]
  /\ grid = NoGrid

Init ==
  /\ \E n \in 0..MaxLen :
       \E t \in [1..n -> [latitude : Latitudes, population : Populations]] :
         df = Table(t)
  /\ EnterCall
  /\ DaylightIdle
  /\ AppIdle
  /\ ZonesIdle

\* Lines 14-17: sort a copy, initialise the locals.
Sort ==
  /\ pc = "call"
  /\ \E s \in sort_values(df) :
       /\ df_sorted' = s
       /\ pareto_cities' = LoopEntry(s).pareto_cities
       /\ max_population_so_far' = LoopEntry(s).max_population_so_far
       /\ pc' = LoopEntry(s).pc
       /\ df' = CallerTableAfterSort(df, s)
  /\ pos' = 1
  /\ UNCHANGED <<result, calls, daylight_vars, app_vars, zone_vars>>

\* Lines 19-23: one iteration of the loop over df_sorted.
Scan ==
  /\ pc = "loop"
  /\ pos <= Len(df_sorted)
  /\ LET city == df_sorted[pos] IN
       IF Includes(city, max_population_so_far)
         THEN /\ pareto_cities' = Append(pareto_cities, city)
              /\ max_population_so_far' = city.population
         ELSE UNCHANGED <<pareto_cities, max_population_so_far>>
  /\ pos' = pos + 1
  /\ UNCHANGED <<df, df_sorted, pc, result, calls, daylight_vars, app_vars, zone_vars>>

\* Line 25: the loop is exhausted; return the accepted rows as a DataFrame.
Return ==
  /\ pc = "loop"
  /\ pos > Len(df_sorted)
  /\ result' = DataFrame(pareto_cities)
  /\ pc' = "done"
  /\ UNCHANGED <<df, df_sorted, pareto_cities, max_population_so_far, pos, calls,
                 daylight_vars, app_vars, zone_vars>>

\* A caller passes the returned table to find_pareto_cities again.
CallAgain ==
  /\ pc = "done"
  /\ calls < MaxCalls
  /\ df' = result
  /\ df_sorted' = <<>>
  /\ pareto_cities' = <<>>
  /\ max_population_so_far' = 0
  /\ pos' = 1
  /\ pc' = "call"
  /\ calls' = calls + 1
  /\ UNCHANGED <<result, daylight_vars, app_vars, zone_vars>>

Next == Sort \/ Scan \/ Return \/ CallAgain

Spec == Init /\ [][Next]_vars

\* Callers' tables in which at least one row lacks a latitude or a population.
InitInvalid ==
  /\ \E n \in 1..MaxLen :
       \E t \in [1..n -> [latitude : Latitudes \cup {NaN},
                          population : Populations \cup {NaN}]] :
         /\ \E k \in 1..n : t[k].latitude = NaN \/ t[k].population = NaN
         /\ df = Table(t)
  /\ EnterCall
  /\ DaylightIdle
  /\ AppIdle
  /\ ZonesIdle

SpecInvalid == InitInvalid /\ [][Next]_vars

----------------------------------------------------------------------------
(***************************************************************************)
(* daylight-visualization/daylight/calculations.py.                        *)
(*                                                                         *)
(* Floats are modelled in fixed point: angles in hundredths of a degree,   *)
(* sines, cosines and tangents in thousandths, durations in hundredths of  *)
(* an hour.  np.sin is Bhaskara's rational approximation and np.arccos the *)
(* inverse of the matching cosine; the branch structure is the code's.     *)
(***************************************************************************)

\* One degree, one (dimensionless) unit and one hour in fixed point.
Degree == 100
Unit == 1000
Hour == 100

\* Division rounding towards zero (the sign-symmetric rounding of floats).
Quot(a, b) == IF a >= 0 THEN a \div b ELSE -((-a) \div b)

\* np.sin(np.radians(a)), a in hundredths of a degree.
SinHalfTurn(a) ==
  LET p == a * (180 * Degree - a)
  IN  (4 * p) \div ((405000000 - p) \div Unit)

sin(a) ==
  LET r == a % (360 * Degree)
  IN  IF r <= 180 * Degree THEN SinHalfTurn(r) ELSE -SinHalfTurn(r - 180 * Degree)

cos(a) == sin(a + 90 * Degree)

\* np.tan(np.radians(90)) is not infinite in floating point but a very large
\* finite number (1.6e16); TanRightAngle stands for it.
TanRightAngle == 1000000

\* np.tan(np.radians(a)).
tan(a) ==
  LET sn == sin(a)
      cs == cos(a)
  IN  IF cs = 0
        THEN (IF sn > 0 THEN TanRightAngle ELSE -TanRightAngle)
        ELSE Quot(sn * Unit, cs)

\* The integer square root, by bisection.
RECURSIVE SqrtBetween(_, _, _)
SqrtBetween(n, lo, hi) ==
  IF lo >= hi THEN lo
  ELSE LET mid == (lo + hi + 1) \div 2
       IN  IF mid * mid <= n THEN SqrtBetween(n, mid, hi)
                             ELSE SqrtBetween(n, lo, mid - 1)

\* np.degrees(np.arccos(c)) for c in [-Unit, Unit], in hundredths of a degree:
\* the angle whose (Bhaskara) cosine is c.
ArccosQuarter(c) ==
  SqrtBetween((324000000 \div (4 * Unit + c)) * (Unit - c), 0, 90 * Degree)

arccos(c) ==
  IF c >= 0 THEN ArccosQuarter(c) ELSE 180 * Degree - ArccosQuarter(-c)

\* datetime.date: the proleptic Gregorian calendar.
IsLeapYear(y) == (y % 4 = 0 /\ y % 100 # 0) \/ y % 400 = 0

DaysInMonth(y, m) ==
  IF m = 2 THEN (IF IsLeapYear(y) THEN 29 ELSE 28)
  ELSE IF m \in {4, 6, 9, 11} THEN 30 ELSE 31

RECURSIVE DaysBeforeMonth(_, _)
DaysBeforeMonth(y, m) ==
  IF m = 1 THEN 0 ELSE DaysBeforeMonth(y, m - 1) + DaysInMonth(y, m - 1)

\* Mutant: a 0-based day of the year (the C library's tm_yday).
tm_yday_zero_based(d) == DaysBeforeMonth(d.year, d.month) + d.day - 1

\* date.timetuple().tm_yday: 1 for January 1st.
tm_yday(d) == DaysBeforeMonth(d.year, d.month) + d.day

\* datetime.date(): the date of a datetime, its time of day dropped.
DateOf(dt) == [kind |-> "date", year |-> dt.year, month |-> dt.month,
               day |-> dt.day, hour |-> 0]

\* calculations.day_of_year (lines 8-12).
day_of_year(date_in) ==
  IF date_in.kind = "datetime"
    THEN tm_yday(DateOf(date_in))
    ELSE tm_yday(date_in)

\* calculations.solar_declination (line 27), in hundredths of a degree.
solar_declination(day) ==
  Quot(2345 * sin((360 * Degree * (284 + day)) \div 365), Unit)

\* The cosine of the sunrise hour angle (lines 42-46 and 95-98).
cos_hour_angle(latitude, declination) ==
  -Quot(tan(latitude) * tan(declination), Unit)

\* Mutant: the two polar branches exchanged.
hour_angle_polar_swapped(latitude, declination) ==
  LET c == cos_hour_angle(latitude, declination)
  IN  IF c < -Unit THEN 0
      ELSE IF c > Unit THEN 180 * Degree
      ELSE arccos(c)

\* calculations.hour_angle (lines 31-57).
hour_angle(latitude, declination) ==
  LET c == cos_hour_angle(latitude, declination)
  IN  IF c < -Unit THEN 180 * Degree
      ELSE IF c > Unit THEN 0
      ELSE arccos(c)

\* Mutant: the factor 2 forgotten.
duration_of_half(h) == (h * Hour) \div (15 * Degree)

\* Line 76 and line 110: hours of daylight from the hour angle.
duration_of(h) == (2 * h * Hour) \div (15 * Degree)

\* calculations.daylight_duration (lines 60-77).
daylight_duration(latitude, date_in) ==
  duration_of(hour_angle(latitude, solar_declination(day_of_year(date_in))))

\* np.clip.
clip(x, lo, hi) == IF x < lo THEN lo ELSE IF x > hi THEN hi ELSE x

\* Mutant: the constants of the two np.where branches exchanged.
hour_angles_polar_swapped(c) ==
  IF c < -Unit THEN 0
  ELSE IF c > Unit THEN 180 * Degree
  ELSE arccos(clip(c, -Unit, Unit))

\* The nested np.where of lines 101-108, for one element.
hour_angles(c) ==
  IF c < -Unit THEN 180 * Degree
  ELSE IF c > Unit THEN 0
  ELSE arccos(clip(c, -Unit, Unit))

\* calculations.daylight_duration_array (lines 80-111).
daylight_duration_array(lats, date_in) ==
  LET declination == solar_declination(day_of_year(date_in))
  IN  [k \in 1..Len(lats) |->
         duration_of(hour_angles(cos_hour_angle(lats[k], declination)))]

\* np.arange(start, stop, step) for a positive step: start, start + step, ...
\* up to but excluding stop.
arange(start, stop, step) ==
  [k \in 1..((stop - start + step - 1) \div step) |-> start + (k - 1) * step]

\* calculations.create_daylight_grid (lines 114-139).
create_daylight_grid(date_input, lat_resolution, lon_resolution) ==
  LET lats == arange(-90 * Degree, 90 * Degree + lat_resolution, lat_resolution)
      lons == arange(-180 * Degree, 180 * Degree + lon_resolution, lon_resolution)
      daylight_hours == daylight_duration_array(lats, date_input)
  IN  [lat_grid |-> [i \in 1..Len(lats) |-> [j \in 1..Len(lons) |-> lats[i]]],
       lon_grid |-> [i \in 1..Len(lats) |-> [j \in 1..Len(lons) |-> lons[j]]],
       daylight_grid |->
         [i \in 1..Len(lats) |-> [j \in 1..Len(lons) |-> daylight_hours[i]]]]

----------------------------------------------------------------------------
\* Callers of calculations.py.

\* find_pareto_cities is not running.
ParetoIdle ==
  /\ df = <<>>
  /\ df_sorted = <<>>
  /\ pareto_cities = <<>>
  /\ max_population_so_far = 0
  /\ pos = 1
  /\ pc = "idle"
  /\ result = <<>>
  /\ calls = 0

\* The dates of a year, as date objects.
DatesOf(y) ==
  { x \in { [kind |-> "date", year |-> y, month |-> m, day |-> d, hour |-> 0] :
              m \in 1..12, d \in 1..31 } : x.day <= DaysInMonth(y, x.month) }

\* Years of each kind of the Gregorian rule: a century that is no leap year,
\* one that is, a common year and a leap year.
Years == {1900, 2000, 2023, 2024}

\* The hours of day tried for a datetime.
Hours == {0, 12, 23}

\* A date, or a datetime at some hour of that date.
InitCalendar ==
  /\ ParetoIdle
  /\ \E y \in Years : \E d \in DatesOf(y) :
       \/ input_date = d
       \/ \E hr \in Hours : input_date = [d EXCEPT !.kind = "datetime", !.hour = hr]
  /\ latitudes = <<>>
  /\ doy = 0
  /\ h_angle = <<>>
  /\ individual_results = <<>>
  /\ array_result = <<>>
  /\ resolution = [lat |-> 0, lon |-> 0]
  /\ grid = NoGrid
  /\ AppIdle
  /\ ZonesIdle

\* A call of day_of_year(input_date).
CallDayOfYear ==
  /\ doy = 0
  /\ doy' = day_of_year(input_date)
  /\ UNCHANGED <<input_date, latitudes, h_angle, individual_results, array_result,
                 resolution, grid, pareto_vars, app_vars, zone_vars>>

NextCalendar == CallDayOfYear

SpecCalendar == InitCalendar /\ [][NextCalendar]_vars

\* The latitudes tried, in hundredths of a degree: the poles, a polar zone,
\* a temperate zone and the equator.
LatitudeSamples == { -90 * Degree, -45 * Degree, 0, 75 * Degree, 90 * Degree }

\* The year whose dates are tried (the reference year of app.py, line 71).
reference_year == 2024

\* A date of the reference year and an array of latitudes, as in
\* tests/test_calculations.py, lines 118-126.
InitDaylight ==
  /\ ParetoIdle
  /\ input_date \in DatesOf(reference_year)
  /\ \E n \in 1..MaxArrayLen : latitudes \in [1..n -> LatitudeSamples]
  /\ doy = 0
  /\ h_angle = <<>>
  /\ individual_results = <<>>
  /\ array_result = <<>>
  /\ resolution = [lat |-> 0, lon |-> 0]
  /\ grid = NoGrid
  /\ AppIdle
  /\ ZonesIdle

\* daylight_duration(lat, input_date) for the next latitude of the array
\* (test line 124; calculations.py lines 71-77).
CallDaylightDuration ==
  /\ Len(individual_results) < Len(latitudes)
  /\ LET lat == latitudes[Len(individual_results) + 1] IN
       /\ h_angle' = Append(h_angle,
            hour_angle(lat, solar_declination(day_of_year(input_date))))
       /\ individual_results' =
            Append(individual_results, daylight_duration(lat, input_date))
  /\ UNCHANGED <<input_date, latitudes, doy, array_result, resolution, grid,
                 pareto_vars, app_vars, zone_vars>>

\* daylight_duration_array(latitudes, input_date) (test line 123).
CallDaylightDurationArray ==
  /\ Len(latitudes) > 0
  /\ array_result = <<>>
  /\ array_result' = daylight_duration_array(latitudes, input_date)
  /\ UNCHANGED <<input_date, latitudes, doy, h_angle, individual_results,
                 resolution, grid, pareto_vars, app_vars, zone_vars>>

NextDaylight == CallDaylightDuration \/ CallDaylightDurationArray

SpecDaylight == InitDaylight /\ [][NextDaylight]_vars

\* The resolutions tried, in hundredths of a degree: the coarser half of the
\* app's "Map Resolution" slider (app.py lines 189-196: 1.0 to 10.0 by 1.0).
GridResolutions == { r * Degree : r \in 5..10 }

\* The dates tried for a grid: the 1st and the 21st of each month.
GridDates == { d \in DatesOf(reference_year) : d.day \in {1, 21} }

InitGrid ==
  /\ ParetoIdle
  /\ input_date \in GridDates
  /\ resolution \in [lat : GridResolutions, lon : GridResolutions]
  /\ latitudes = <<>>
  /\ doy = 0
  /\ h_angle = <<>>
  /\ individual_results = <<>>
  /\ array_result = <<>>
  /\ grid = NoGrid
  /\ AppIdle
  /\ ZonesIdle

\* create_daylight_grid(input_date, lat_resolution, lon_resolution).
CallCreateDaylightGrid ==
  /\ grid = NoGrid
  /\ resolution.lat > 0
  /\ grid' = create_daylight_grid(input_date, resolution.lat, resolution.lon)
  /\ UNCHANGED <<input_date, latitudes, doy, h_angle, individual_results,
                 array_result, resolution, pareto_vars, app_vars, zone_vars>>

NextGrid == CallCreateDaylightGrid

SpecGrid == InitGrid /\ [][NextGrid]_vars

----------------------------------------------------------------------------
(***************************************************************************)
(* daylight-visualization/app.py: the day-of-year controls of the sidebar. *)
(* One action is one run of the script, started by the use of a widget.    *)
(***************************************************************************)

\* The date of the n-th day counted from the first day of month m of year y.
RECURSIVE FromMonthDay(_, _, _)
FromMonthDay(y, m, n) ==
  IF n <= DaysInMonth(y, m)
    THEN [kind |-> "date", year |-> y, month |-> m, day |-> n, hour |-> 0]
    ELSE FromMonthDay(y, m + 1, n - DaysInMonth(y, m))

\* The date of an ordinal day of a year (date.fromordinal within the year).
FromYearDay(y, n) == FromMonthDay(y, 1, n)

\* date + timedelta(days=n), n >= 0, while the sum stays in the year of d:
\* the sum is taken on the ordinals of the days.
PlusDays(d, n) == FromYearDay(d.year, tm_yday(d) + n)

\* The quick-select buttons and the day each one sets (lines 43-55).
QuickSelect ==
  { [label |-> "Jan 1", day_of_year |-> 1],
    [label |-> "Mar 20", day_of_year |-> 79],
    [label |-> "Jun 21", day_of_year |-> 172],
    [label |-> "Sep 22", day_of_year |-> 265],
    [label |-> "Dec 21", day_of_year |-> 355],
    [label |-> "Dec 31", day_of_year |-> 365] }

\* The bounds of the "Day of Year" slider (lines 60-61).
min_value == 1
max_value == 365

\* Lines 71-72: the date of a day of the year, in the reference year.
SelectedDate(day) ==
  PlusDays([kind |-> "date", year |-> reference_year, month |-> 1, day |-> 1,
            hour |-> 0],
           day - 1)

Min(a, b) == IF a <= b THEN a ELSE b

\* st.session_state is a record: a key the script has not set yet is a field
\* the record does not have.
Has(ss, key) == key \in DOMAIN ss

\* st.session_state.get(key, default).
Get(ss, key, default) == IF Has(ss, key) THEN ss[key] ELSE default

\* st.session_state.key = value.
Set(ss, key, value) == (key :> value) @@ ss

\* if key not in st.session_state: st.session_state.key = value.
SetDefault(ss, key, value) == IF Has(ss, key) THEN ss ELSE Set(ss, key, value)

\* What starts a run: the widget the user used, with the value given to it
\* when it is a slider.  "none" is a run no sidebar widget started:
\* st.rerun() of line 175, or a widget of the main area.
Event(widget, value) == [widget |-> widget, value |-> value]

\* Lines 43-55: the quick-select button that was clicked sets the day.
quick_select(ss, ev) ==
  IF \E b \in QuickSelect : b.label = ev.widget
    THEN Set(ss, "day_of_year",
             (CHOOSE b \in QuickSelect : b.label = ev.widget).day_of_year)
    ELSE ss

\* Lines 58-65: the slider returns the value the user gave it in this run,
\* and otherwise the value it is built on.
slider(key, value, ev) == IF ev.widget = key THEN ev.value ELSE value

\* Line 86: the checkbox keeps its state from run to run; its use flips it.
checkbox(state, ev) ==
  IF ev.widget = "Enable Animation" THEN ~state ELSE state

\* The speed presets (lines 93-103); the pause between two frames,
\* animation_delay, is used by time.sleep alone and is left out.
Presets ==
  { [label |-> "Slow", animation_speed |-> 1],
    [label |-> "Normal", animation_speed |-> 7],
    [label |-> "Fast", animation_speed |-> 14] }

presets(ss, ev) ==
  IF \E p \in Presets : p.label = ev.widget
    THEN Set(ss, "animation_speed",
             (CHOOSE p \in Presets : p.label = ev.widget).animation_speed)
    ELSE ss

\* The speed a session starts with (line 107) and the bounds of the
\* "Animation Speed" slider (lines 114-115).
default_speed == 7
speed_min_value == 1
speed_max_value == 30

\* Lines 138-140: Play.
play(ss) == Set(Set(ss, "animating", TRUE), "animation_direction", 1)

\* Lines 142-143: Pause.
pause(ss) == Set(ss, "animating", FALSE)

reset_keeps_animating(ss) == Set(ss, "day_of_year", 1)

\* Lines 145-147: Reset.
reset(ss) == Set(Set(ss, "day_of_year", 1), "animating", FALSE)

reverse_sets_backward(ss) == Set(ss, "animation_direction", -1)

\* Lines 150-151: Reverse Direction.
reverse(ss) ==
  Set(ss, "animation_direction", Get(ss, "animation_direction", 1) * (-1))

\* Lines 138-151: the button of the animation controls that was clicked.
controls(ss, ev) ==
  CASE ev.widget = "Play" -> play(ss)
    [] ev.widget = "Pause" -> pause(ss)
    [] ev.widget = "Reset" -> reset(ss)
    [] ev.widget = "Reverse Direction" -> reverse(ss)
    [] OTHER -> ss

next_day_unwrapped(day, animation_speed, animation_direction) ==
  day + animation_speed * animation_direction

next_day_wrapped_at_366(day, animation_speed, animation_direction) ==
  LET n == day + animation_speed * animation_direction
  IN  IF n > 366 THEN n - 366 ELSE IF n < 1 THEN 366 + n ELSE n

\* Lines 162-168: the day the animation moves to, wrapped around the year.
next_day(day, animation_speed, animation_direction) ==
  LET n == day + animation_speed * animation_direction
  IN  IF n > 365 THEN n - 365 ELSE IF n < 1 THEN 365 + n ELSE n

\* Lines 160-170: the auto-advance step, taken when the session is animating.
auto_advance(ss) ==
  IF Get(ss, "animating", FALSE)
    THEN Set(ss, "day_of_year",
             next_day(ss.day_of_year, ss.animation_speed,
                      ss.animation_direction))
    ELSE ss

\* Lines 88-175: the animation block, run when the checkbox is on.
animation_block(ss, ev) ==
  LET preset == SetDefault(presets(ss, ev), "animation_speed", default_speed)
      animation_speed ==
        slider("speed_slider", preset.animation_speed, ev)
      clicks == controls(Set(preset, "animation_speed", animation_speed), ev)
      ready == SetDefault(SetDefault(clicks, "animating", FALSE),
                          "animation_direction", 1)
  IN  auto_advance(ready)

\* Lines 36-175: one run of the script on session state ss with the checkbox
\* in state box, started by ev.  The result is the session state the run
\* leaves and what the run showed and did.
main(ss, box, ev) ==
  LET picked == quick_select(ss, ev)
      day == slider("day_slider", picked.day_of_year, ev)
      stored == Set(picked, "day_of_year", day)
      on == checkbox(box, ev)
      left == IF on THEN animation_block(stored, ev) ELSE stored
  IN  [session_state |-> left,
       selected_day_of_year |-> day,
       selected_date |-> SelectedDate(day),
       banner |-> Get(stored, "animating", FALSE),
       animate |-> on,
       advanced |-> on /\ Get(left, "animating", FALSE)]

\* The state a run started by ev leaves.
Run(ev) ==
  \E run \in {main(session_state, animate, ev)} :
    /\ session_state' = run.session_state
    /\ selected_day_of_year' = run.selected_day_of_year
    /\ selected_date' = run.selected_date
    /\ banner' = run.banner
    /\ animate' = run.animate
    /\ advanced' = run.advanced
    /\ UNCHANGED <<pareto_vars, daylight_vars, zone_vars>>

\* The days on which a session is opened, the positions the day slider is
\* moved to and the positions the speed slider is moved to.
OpeningDays ==
  { d \in DatesOf(reference_year) : d.day \in {1, 30, 31} /\ d.month \in {1, 3, 12} }
DaySliderPositions == {min_value, 60, 200, max_value}
SpeedSliderPositions == {speed_min_value, speed_max_value}

\* The first run of the script (lines 36-37 and on): no widget has been
\* used and the checkbox is off.
InitApp ==
  /\ ParetoIdle
  /\ DaylightIdle
  /\ ZonesIdle
  /\ \E today \in OpeningDays :
       \E run \in {main([day_of_year |-> Min(tm_yday(today), 365)], FALSE,
                        Event("none", 0))} :
         /\ session_state = run.session_state
         /\ selected_day_of_year = run.selected_day_of_year
         /\ selected_date = run.selected_date
         /\ banner = run.banner
         /\ animate = run.animate
         /\ advanced = run.advanced
  /\ clicked = "none"

\* A run started by a quick-select button.
ClickQuickSelect ==
  \E b \in QuickSelect :
    /\ clicked' = b.label
    /\ Run(Event(b.label, 0))

\* A run started by moving the "Day of Year" slider.
MoveDaySlider ==
  \E v \in DaySliderPositions :
    /\ v # session_state.day_of_year
    /\ clicked' = "day_slider"
    /\ Run(Event("day_slider", v))

\* A run started by the "Enable Animation" checkbox.
ToggleAnimate ==
  /\ clicked' = "Enable Animation"
  /\ Run(Event("Enable Animation", 0))

\* The widgets of the animation block are on the page when the last run had
\* the checkbox on.
ClickPreset ==
  /\ animate
  /\ \E p \in Presets :
       /\ clicked' = p.label
       /\ Run(Event(p.label, 0))

MoveSpeedSlider ==
  /\ animate
  /\ \E v \in SpeedSliderPositions :
       /\ v # session_state.animation_speed
       /\ clicked' = "speed_slider"
       /\ Run(Event("speed_slider", v))

ClickPlay ==
  /\ animate
  /\ clicked' = "Play"
  /\ Run(Event("Play", 0))

ClickPause ==
  /\ animate
  /\ clicked' = "Pause"
  /\ Run(Event("Pause", 0))

ClickReset ==
  /\ animate
  /\ clicked' = "Reset"
  /\ Run(Event("Reset", 0))

ClickReverse ==
  /\ animate
  /\ clicked' = "Reverse Direction"
  /\ Run(Event("Reverse Direction", 0))

\* A run no sidebar widget started: the st.rerun() of line 175 after an
\* auto-advance step, or the use of a widget of the main area.
Rerun ==
  /\ clicked' = "none"
  /\ Run(Event("none", 0))

NextApp ==
  \/ ClickQuickSelect
  \/ MoveDaySlider
  \/ ToggleAnimate
  \/ ClickPreset
  \/ MoveSpeedSlider
  \/ ClickPlay
  \/ ClickPause
  \/ ClickReset
  \/ ClickReverse
  \/ Rerun

SpecApp == InitApp /\ [][NextApp]_vars

----------------------------------------------------------------------------
(***************************************************************************)
(* northern-city-map/latitude_population.py: population per degree of      *)
(* latitude and per climate zone.  Latitudes are in hundredths of a degree *)
(* (Degree), bin labels in whole degrees.                                  *)
(***************************************************************************)

\* Line 15: the row has a population, and it is not zero.
has_population(city) == city.population # NaN /\ city.population > 0

\* Line 18: np.arange(-90, 91, 1), the edges of the bins.
latitude_bins == (-90)..90

\* Line 19: pd.cut with labels=latitude_bins[:-1] and include_lowest=True.
\* The bins are closed on the right, (b, b+1], the first one on both sides,
\* and a latitude gets the lower edge of its bin as its label.
cut(x) ==
  CHOOSE b \in latitude_bins \ {90} :
    /\ b * Degree < x \/ (b = -90 /\ x = b * Degree)
    /\ x <= (b + 1) * Degree

\* The sum of the population column of a table.
RECURSIVE sum(_)
sum(rows) ==
  IF rows = <<>> THEN 0 ELSE Head(rows).population + sum(Tail(rows))

\* The members of a set of numbers in ascending order.
RECURSIVE Ascending(_)
Ascending(S) ==
  IF S = {} THEN <<>>
  ELSE LET least == CHOOSE x \in S : \A y \in S : x <= y
       IN  <<least>> \o Ascending(S \ {least})

\* Lines 19-29: one row per observed bin with the summed population of its
\* cities, sorted by bin, bins of no population dropped.
group_by_bin(rows) ==
  LET observed == Ascending({ cut(rows[k].latitude) : k \in 1..Len(rows) })
      grouped ==
        [k \in 1..Len(observed) |->
           [latitude_bin |-> observed[k],
            population |->
              sum(SelectSeq(rows,
                            LAMBDA r : cut(r.latitude) = observed[k]))]]
  IN  SelectSeq(grouped, LAMBDA g : g.population > 0)

\* The latitudes of the tropics and of the polar circles (lines 104-111).
tropic == 2350
polar_circle == 6650

\* Lines 104-111: the five totals, selected on the labels of the bins.
zone_totals(lp) ==
  LET bin(g) == g.latitude_bin * Degree
  IN  [tropical_pop |->
         sum(SelectSeq(lp, LAMBDA g : bin(g) >= -tropic /\ bin(g) <= tropic)),
       temperate_north_pop |->
         sum(SelectSeq(lp, LAMBDA g : bin(g) > tropic /\ bin(g) < polar_circle)),
       temperate_south_pop |->
         sum(SelectSeq(lp, LAMBDA g : bin(g) < -tropic /\ bin(g) > -polar_circle)),
       arctic_pop |->
         sum(SelectSeq(lp, LAMBDA g : bin(g) >= polar_circle)),
       antarctic_pop |->
         sum(SelectSeq(lp, LAMBDA g : bin(g) <= -polar_circle))]

\* The latitudes and populations the cities of a table are drawn from.
ZoneLatitudes ==
  { -90 * Degree, -6670, -6620, -24 * Degree, -2370, -2320, 0,
    2320, 2370, 24 * Degree, 6620, 6670, 67 * Degree, 90 * Degree }
ZonePopulations == {NaN, 0, 1, 2}

\* cities1000.txt has been read (line 12).
InitZones ==
  /\ \E n \in 0..MaxCities :
       \E t \in [1..n -> [latitude : ZoneLatitudes,
                          population : ZonePopulations]] :
         cities1000 = t
  /\ latitude_pop = <<>>
  /\ climate_zones = zone_totals(<<>>)
  /\ reported = FALSE
  /\ ParetoIdle
  /\ DaylightIdle
  /\ AppIdle

\* Lines 15-122: the run of main on the table.
Report ==
  /\ ~reported
  /\ \E lp \in {group_by_bin(SelectSeq(cities1000, has_population))} :
       /\ latitude_pop' = lp
       /\ climate_zones' = zone_totals(lp)
  /\ reported' = TRUE
  /\ UNCHANGED <<cities1000, pareto_vars, daylight_vars, app_vars>>

NextZones == Report

SpecZones == InitZones /\ [][NextZones]_vars

----------------------------------------------------------------------------
\* Vocabulary of the properties.

Rows(t) == { t[k] : k \in 1..Len(t) }

Returned == pc = "done"

\* f is at least as far north and at least as populous as r.
Covers(f, r) == f.latitude >= r.latitude /\ f.population >= r.population

\* f is strictly worse than g in one dimension and not strictly better in
\* the other.
WorseAndNotBetter(f, g) ==
  \/ f.latitude < g.latitude /\ ~(f.population > g.population)
  \/ f.population < g.population /\ ~(f.latitude > g.latitude)

\* The arrangement a stable descending sort would give: rows of equal latitude
\* keep the order they have in d.
StableSortDescending(d) ==
  CHOOSE s \in Reorderings(d) :
    /\ IsSortedDescending(s)
    /\ \A a, b \in 1..Len(s) :
         (a < b /\ s[a].latitude = s[b].latitude) =>
           \E x, y \in 1..Len(d) : x < y /\ d[x] = s[a] /\ d[y] = s[b]

----------------------------------------------------------------------------
\* C1: frontier monotonicity.  Every accepted row has a population strictly
\* greater than that of every row accepted before it, so in the returned
\* frontier (descending latitude) each adjacent pair has strictly increasing
\* population.
C1_FrontierMonotonic ==
  /\ \A a, b \in 1..Len(pareto_cities) :
       a < b => pareto_cities[a].population < pareto_cities[b].population
  /\ Returned =>
       \A k \in 1..(Len(result) - 1) :
         /\ result[k].population < result[k + 1].population
         /\ result[k].latitude >= result[k + 1].latitude

C1_Witness ==
  /\ Returned
  /\ Len(result) >= 2
  /\ Len(df) > Len(result)

\* C2: domination completeness.  Every row of the input that is not in the
\* returned frontier is covered by some frontier row.
C2_DominationComplete ==
  Returned =>
    \A r \in Rows(df) \ Rows(result) :
      \E f \in Rows(result) : Covers(f, r)

\* C3: the returned frontier is a subset of the input and no member is
\* strictly worse in one dimension and not better in the other than another
\* member.
C3_NoMemberDominated ==
  Returned =>
    /\ Rows(result) \subseteq Rows(df)
    /\ \A f, g \in Rows(result) : f # g => ~WorseAndNotBetter(f, g)

\* C4: no city of the input is both strictly further north and strictly
\* larger than a city of the returned frontier.
C4_NoLargerFurtherNorth ==
  Returned =>
    \A f \in Rows(result) :
      ~\E r \in Rows(df) :
         r.latitude > f.latitude /\ r.population > f.population

C4_Witness ==
  /\ Returned
  /\ \E f \in Rows(result) :
       /\ \E r \in Rows(df) \ Rows(result) : r.latitude > f.latitude
       /\ \E q \in Rows(df) : q.population > f.population

\* C5: every excluded row is strictly dominated: some frontier row covers
\* it, strictly in latitude or in population.
C5_ExcludedStrictlyDominated ==
  Returned =>
    \A r \in Rows(df) \ Rows(result) :
      \E f \in Rows(result) :
        /\ Covers(f, r)
        /\ (f.latitude > r.latitude \/ f.population > r.population)

\* C6: idempotence.  A call on the table returned by a previous call returns
\* that same table, rows in the same order.
C6_Idempotent ==
  (Returned /\ calls >= 2) => result = df

\* C7: rows of equal latitude are scanned in their input order: the scan
\* order is the stable descending sort of the input.
C7_StableScanOrder ==
  pc \in {"loop", "done"} => df_sorted = StableSortDescending(df)

\* C8: when every row of a non-empty input has a non-positive population, or
\* all rows have the same population, the frontier is exactly the first row
\* in scan order.
C8_SingleBestPrimary ==
  (/\ Returned
   /\ Len(df) > 0
   /\ \/ \A r \in Rows(df) : r.population <= 0
      \/ \A r, q \in Rows(df) : r.population = q.population)
  => result = <<df_sorted[1]>>

\* C9: a one-row input is returned as it is.
C9_SingleRecord ==
  (Returned /\ Len(df) = 1) => result = df

C11_EqualLatitudeSingleBest ==
  (/\ Returned
   /\ Len(df) > 0
   /\ \A r, q \in Rows(df) : r.latitude = q.latitude
   /\ \A r, q \in Rows(df) : r # q => r.population # q.population)
  => \E f \in Rows(df) :
       /\ \A r \in Rows(df) : r.population <= f.population
       /\ result = <<f>>

\* C13: no side effects.  No step of find_pareto_cities changes the caller's
\* table: its rows, their order and their fields are the same after the call.
C13_CallerTableUnchanged ==
  [][(pc \in {"call", "loop"}) => (df' = df)]_vars

C13_Witness ==
  /\ Returned
  /\ df_sorted # df
  /\ Len(result) > 0
  /\ Len(result) < Len(df)

\* C14: the returned frontier is in scan order, by non-increasing latitude,
\* and each returned row is a row of the input with its label and fields.
C14_ScanOrderPassthrough ==
  Returned =>
    /\ IsSortedDescending(result)
    /\ \A k \in 1..Len(result) : result[k] \in Rows(df)
    /\ \A a, b \in 1..Len(result) :
         a < b => \E x, y \in 1..Len(df_sorted) :
                    x < y /\ df_sorted[x] = result[a] /\ df_sorted[y] = result[b]

C14_Witness ==
  /\ Returned
  /\ Len(result) >= 2
  /\ result[1].latitude > result[2].latitude
  /\ result[1].index > result[2].index

\* C12: a table holding a row without a finite latitude or population is
\* rejected with InvalidInputError before the scan begins: the call never
\* enters the loop and returns no frontier.
C12_InvalidRejectedEagerly ==
  (\E r \in Rows(df) : r.latitude = NaN \/ r.population = NaN)
    => pc \in {"call", "InvalidInputError"}

\* C19: day_of_year returns a value in 1..366: 1 for January 1st, 365 for
\* December 31st of a year that is no leap year, 366 for December 31st of a
\* leap year; the hour of a datetime does not change it.
C19_DayOfYear ==
  doy # 0 =>
    /\ doy \in 1..366
    /\ (input_date.month = 1 /\ input_date.day = 1) => doy = 1
    /\ (input_date.month = 12 /\ input_date.day = 31) =>
         doy = (IF input_date.year \in {2000, 2024} THEN 366 ELSE 365)
    /\ (input_date.month = 3 /\ input_date.day = 1) =>
         doy = (IF input_date.year \in {2000, 2024} THEN 61 ELSE 60)
    /\ input_date.kind = "datetime" =>
         doy = tm_yday([input_date EXCEPT !.kind = "date", !.hour = 0])

C19_Witness ==
  /\ doy = 366
  /\ input_date.kind = "datetime"
  /\ input_date.hour = 23

\* The declination and the cosine of the hour angle of the k-th latitude of
\* the array on the date in play.
DeclinationNow == solar_declination(day_of_year(input_date))

CosNow(k) == cos_hour_angle(latitudes[k], DeclinationNow)

\* C15: the vectorised and the scalar computation agree: element k of
\* daylight_duration_array(latitudes, date) equals
\* daylight_duration(latitudes[k], date), in the normal case, in polar day and
\* in polar night.
C15_ArrayMatchesScalar ==
  array_result # <<>> =>
    /\ Len(array_result) = Len(latitudes)
    /\ \A k \in 1..Len(individual_results) :
         array_result[k] = individual_results[k]

C15_Witness ==
  /\ Len(latitudes) = 2
  /\ Len(individual_results) = 2
  /\ array_result # <<>>
  /\ CosNow(1) < -Unit
  /\ CosNow(2) > Unit

C18_EquatorTwelveHours ==
  \A k \in 1..Len(individual_results) :
    latitudes[k] = 0 =>
      /\ CosNow(k) = 0
      /\ h_angle[k] = 90 * Degree
      /\ 2 * individual_results[k] > 23 * Hour
      /\ 2 * individual_results[k] < 25 * Hour

C18_Witness ==
  /\ Len(individual_results) >= 1
  /\ latitudes[1] = 0
  /\ input_date.month = 6 /\ input_date.day = 21
  /\ DeclinationNow > 23 * Degree

\* The shape of a grid: its number of rows and the length of each row.
HasShape(g, rows, cols) ==
  Len(g) = rows /\ \A i \in 1..rows : Len(g[i]) = cols

\* C17: create_daylight_grid returns three grids of one shape (latitude
\* points by longitude points); the latitude points run from -90 to 90 and the
\* longitude points from -180 to 180 in steps of the resolutions; the
\* daylight of a row is the same in every column.
C17_GridShape ==
  grid # NoGrid =>
    LET rows == Len(grid.lat_grid)
        cols == Len(grid.lat_grid[1])
    IN  /\ HasShape(grid.lat_grid, rows, cols)
        /\ HasShape(grid.lon_grid, rows, cols)
        /\ HasShape(grid.daylight_grid, rows, cols)
        /\ \A i \in 1..rows : \A j \in 1..cols :
             /\ grid.lat_grid[i][j] = -90 * Degree + (i - 1) * resolution.lat
             /\ grid.lon_grid[i][j] = -180 * Degree + (j - 1) * resolution.lon
             /\ grid.lat_grid[i][j] <= 90 * Degree
             /\ grid.lon_grid[i][j] <= 180 * Degree
             /\ grid.daylight_grid[i][j] = grid.daylight_grid[i][1]
        /\ grid.lat_grid[rows][1] + resolution.lat > 90 * Degree
        /\ grid.lon_grid[1][cols] + resolution.lon > 180 * Degree

\* What each label of the dashboard says: the month and day it names.
LabelledDates ==
  { [label |-> "Jan 1", month |-> 1, day |-> 1],
    [label |-> "Mar 20", month |-> 3, day |-> 20],
    [label |-> "Jun 21", month |-> 6, day |-> 21],
    [label |-> "Sep 22", month |-> 9, day |-> 22],
    [label |-> "Dec 21", month |-> 12, day |-> 21],
    [label |-> "Dec 31", month |-> 12, day |-> 31] }

\* C20: every day-of-year label names the date the app then uses: day 1 is
\* January 1st, day 365 is December 31st, and after a quick-select button the
\* selected date is the date on the button.
C20_LabelsNameDates ==
  /\ session_state.day_of_year = 1 =>
       (selected_date.month = 1 /\ selected_date.day = 1)
  /\ session_state.day_of_year = 365 =>
       (selected_date.month = 12 /\ selected_date.day = 31)
  /\ \A l \in LabelledDates :
       clicked = l.label =>
         (selected_date.month = l.month /\ selected_date.day = l.day)

\* C21: inclusion rule of the scan.  Every row of the input whose population
\* is larger than the population of every row of strictly greater latitude is
\* in the returned frontier, whatever rows share its latitude.
C21_InclusionRule ==
  Returned =>
    \A r \in Rows(df) :
      (\A q \in Rows(df) : q.latitude > r.latitude =>
                             r.population > q.population)
      => r \in Rows(result)

\* C22: session invariant of the dashboard.  At the end of every script run,
\* whatever widgets started the runs so far and whatever auto-advance steps
\* were taken, st.session_state.day_of_year is an integer in 1..365 (and the
\* animation speed, once set, is in 1..30).
C22_DayOfYearInRange ==
  /\ session_state.day_of_year \in 1..365
  /\ selected_day_of_year \in 1..365
  /\ Has(session_state, "animation_speed") =>
       session_state.animation_speed \in 1..30

\* An auto-advance step went backwards over the start of the year at the
\* highest speed.
C22_Witness ==
  /\ advanced
  /\ session_state.animation_direction = -1
  /\ session_state.animation_speed = speed_max_value
  /\ session_state.day_of_year > selected_day_of_year

\* C23: the animation step is arithmetic modulo 365.  A run that auto-advances
\* from the day d its slider returned, at speed s, leaves day
\* ((d-1+s) mod 365)+1 when the direction is forward and ((d-1-s) mod 365)+1
\* when it is reverse; a forward step followed by a reverse step at the same
\* speed (the run Reverse Direction starts) is back on the day the forward
\* step left.
C23_StepModulo365 ==
  [][advanced' =>
       LET d == selected_day_of_year'
           s == session_state'.animation_speed
       IN  /\ session_state'.animation_direction = 1 =>
                session_state'.day_of_year = ((d - 1 + s) % 365) + 1
           /\ session_state'.animation_direction = -1 =>
                session_state'.day_of_year = ((d - 1 - s) % 365) + 1
           /\ (/\ advanced
               /\ session_state.animation_direction = 1
               /\ session_state.animation_speed = s
               /\ clicked' = "Reverse Direction")
              => session_state'.day_of_year = selected_day_of_year]_vars

\* A forward step over the end of the year has been undone by the reverse
\* step of the run that Reverse Direction started.
C23_Witness ==
  /\ advanced
  /\ clicked = "Reverse Direction"
  /\ session_state.animation_direction = -1
  /\ session_state.day_of_year > selected_day_of_year

\* C24: animation controls.  The run Play starts leaves animating True and
\* animation_direction 1; the run Pause starts leaves animating False and
\* day_of_year, direction and speed as they were; the run Reverse Direction
\* starts negates animation_direction and leaves animating as it was; the
\* direction of a session is always 1 or -1.
C24_AnimationControls ==
  [][/\ clicked' = "Play" =>
          /\ session_state'.animating = TRUE
          /\ session_state'.animation_direction = 1
     /\ clicked' = "Pause" =>
          /\ session_state'.animating = FALSE
          /\ session_state'.day_of_year = session_state.day_of_year
          /\ session_state'.animation_direction =
               session_state.animation_direction
          /\ session_state'.animation_speed = session_state.animation_speed
     /\ clicked' = "Reverse Direction" =>
          /\ session_state'.animation_direction =
               -session_state.animation_direction
          /\ session_state'.animating = session_state.animating
     /\ Get(session_state', "animation_direction", 1) \in {1, -1}]_vars

\* Reverse Direction has been clicked twice while the animation was playing:
\* the direction is forward again.
C24_Witness ==
  /\ clicked = "Reverse Direction"
  /\ session_state.animating
  /\ session_state.animation_direction = 1

\* C25: Pause and Reset stop the animation.  The run Pause or Reset starts
\* takes no auto-advance step and leaves animating False, and Reset leaves
\* day_of_year 1; from a session that is not animating, every run that Play
\* did not start takes no auto-advance step and leaves the session not
\* animating.
C25_PauseResetStop ==
  [][/\ clicked' \in {"Pause", "Reset"} =>
          /\ ~advanced'
          /\ session_state'.animating = FALSE
     /\ clicked' = "Reset" => session_state'.day_of_year = 1
     /\ (~Get(session_state, "animating", FALSE) /\ clicked' # "Play") =>
          /\ ~advanced'
          /\ ~Get(session_state', "animating", FALSE)
          /\ clicked' # "Reset" =>
               session_state'.day_of_year = selected_day_of_year']_vars

\* Reset has been clicked while the animation was playing on a day other
\* than the first.
C25_Witness ==
  /\ clicked = "Reset"
  /\ banner
  /\ selected_day_of_year # 1
  /\ session_state.day_of_year = 1
  /\ ~advanced

\* C26: the "Animation Active" banner is shown in a run exactly when the run
\* takes the auto-advance step: never with the checkbox off, and in every run
\* that advances, the one Play starts included.
C26_BannerIffAdvance ==
  /\ banner <=> advanced
  /\ ~animate => ~banner
  /\ clicked = "Play" => banner

\* The summed population of the cities of the table whose latitude passes
\* the test.
PopulationWhere(InRange(_)) ==
  sum(SelectSeq(cities1000,
                LAMBDA city : has_population(city) /\ InRange(city.latitude)))

\* C27: the climate-zone totals match their printed ranges: Tropical is the
\* population of exactly the cities with latitude in [-23.5, 23.5], Northern
\* Temperate of those in (23.5, 66.5), Southern Temperate of those in
\* (-66.5, -23.5), Arctic of those at or above 66.5 and Antarctic of those at
\* or below -66.5.
C27_ZoneTotalsMatchRanges ==
  reported =>
    /\ climate_zones.tropical_pop =
         PopulationWhere(LAMBDA x : x >= -tropic /\ x <= tropic)
    /\ climate_zones.temperate_north_pop =
         PopulationWhere(LAMBDA x : x > tropic /\ x < polar_circle)
    /\ climate_zones.temperate_south_pop =
         PopulationWhere(LAMBDA x : x < -tropic /\ x > -polar_circle)
    /\ climate_zones.arctic_pop =
         PopulationWhere(LAMBDA x : x >= polar_circle)
    /\ climate_zones.antarctic_pop =
         PopulationWhere(LAMBDA x : x <= -polar_circle)

====
